---- MODULE Spec2Model ----
(***************************************************************************)
(* Model of the availability / booking subsystem of the therapist service. *)
(* The system of record is the relational store: the tables                *)
(* availability_slots and session_bookings.  Every model-layer method      *)
(* issues its SQL statements one by one through pool.query (no             *)
(* transaction), so each statement is atomic and a handler is a sequence   *)
(* of statements.                                                          *)
(*                                                                         *)
(* Three specifications use the same statements:                           *)
(*   Spec      every request handler runs to completion in one step        *)
(*             (a single caller at a time);                                *)
(*   SpecConc  NumProcs request handlers run concurrently, one SQL         *)
(*             statement per step;                                         *)
(*   SpecRace  NumProcs clients only call bookSlot, on slots that are      *)
(*             available, one SQL statement per step.                      *)
(* In these three a slot is its owner and its status: no statement they    *)
(* run reads the slot's times.  Callers are identified by the id the       *)
(* handler uses for them: therapist.id for role psychiatrist, req.user.sub *)
(* for a client.                                                           *)
(*                                                                         *)
(* Five further specifications cover the statements that read times:       *)
(*   SpecSlots      one caller at a time on slots that carry their         *)
(*                  interval (create, update, book, cancel);               *)
(*   SpecTemplates  one caller at a time creating templates and generating *)
(*                  slots from them;                                       *)
(*   SpecGenerate   NumProcs generation runs, one SQL statement per step;  *)
(*   SpecDelete     NumProcs bookSlot and deleteSlot requests, one SQL     *)
(*                  statement per step;                                    *)
(*   SpecSweep      slot creation and booking while the clock advances and *)
(*                  the scheduled cleanup runs.                            *)
(*                                                                         *)
(* Five more cover the cleanup's surroundings and the templates:           *)
(*   SpecSweepCancel   SpecSweep with cancelSession;                       *)
(*   SpecSweepFail     the hourly cleanup against a store that can fail;   *)
(*   SpecDay           generateTimeSlotsForDay applied to the windows,     *)
(*                     durations and breaks of valid templates;            *)
(*   SpecTemplateEdit  creating and updating templates, request validation *)
(*                     included;                                           *)
(*   SpecDeactivate    deactivating templates while slots and bookings are *)
(*                     stored.                                             *)
(*                                                                         *)
(* The last ones cover ownership, logging and the remaining interleavings: *)
(*   SpecOwnership     providers acting on each other's templates and      *)
(*                     slots;                                              *)
(*   SpecComplete      PUT /sessions/:sessionId on bookings of timed slots *)
(*                     while the clock advances;                           *)
(*   SpecLog           template and slot handlers with an activity log     *)
(*                     that can fail;                                      *)
(*   SpecBookSweep     NumProcs bookSlot and deleteSlot requests and the   *)
(*                     cleanup, one SQL statement per step;                *)
(*   SpecDayLoopFair   the loop of generateTimeSlotsForDay, one iteration  *)
(*                     per step, of a call that keeps running;             *)
(*   SpecInactive      generation from templates that are deactivated and  *)
(*                     activated again.                                    *)
(***************************************************************************)
EXTENDS Integers, FiniteSets, Sequences, TLC

\* ------------------------------------------------------------------ bounds
MaxSlots == 2
MaxBookings == 2
NumTherapists == 2
NumUsers == 2
NumProcs == 2

\* --------------------------------------------------------------- constants
VarcharLimit == 20
IndividualLen == 10
TooLongLen == VarcharLimit + 1

Therapists == 1..NumTherapists
Users == 1..NumUsers
Procs == 1..NumProcs
SlotIds == 1..MaxSlots
BookingIds == 1..MaxBookings

\* a SQL NULL in an INTEGER column / an undefined request field
NullId == 0
TextReason == -1
Undefined == "undefined"

SlotStatuses == {"available", "booked", "blocked", "cancelled"}
BookingStatuses == {"scheduled", "completed", "cancelled"}
\* lengths of the session_type strings a client sends to the unvalidated
\* /slots/:slotId/book route
SessionTypeLens == {IndividualLen, TooLongLen}

VARIABLES
    slots,          \* availability_slots: id -> [therapist_id, status]
    bookings,       \* session_bookings: id -> [therapist_id, user_id, availability_slot_id, status]
    nextSlotId,     \* availability_slots.id SERIAL
    nextBookingId,  \* session_bookings.id SERIAL
    last,           \* the response to the most recent request (Spec)
    pc,             \* position of each concurrent request handler (SpecConc, SpecRace)
    req,            \* arguments, locals and response of each concurrent handler
    templates,      \* availability_templates: id -> row
    nextTemplateId, \* availability_templates.id SERIAL
    now             \* NOW() of the store, in minutes

vars == <<slots, bookings, nextSlotId, nextBookingId, last, pc, req,
          templates, nextTemplateId, now>>
db == <<slots, bookings, nextSlotId, nextBookingId>>
\* the templates and the clock: no booking statement reads or writes them
sched == <<templates, nextTemplateId, now>>

NoRequest == [op |-> "none", id |-> NullId, role |-> "none", caller |-> NullId, result |-> "none"]
\* locals of a concurrent handler: its arguments, the therapist_id of the row
\* its SELECT returned, and its response once it has one
NoLocals == [op |-> "none", id |-> NullId, caller |-> NullId, stype |-> 0,
             therapist_id |-> NullId, result |-> "none"]

\* the reason field of an unvalidated cancel request body, by the integer the
\* store reads it as when it is bound to an INTEGER parameter; TextReason
\* stands for every reason that is no integer literal, among them the
\* default 'Session cancelled' taken when the field is absent
ReasonInputs == {TextReason} \cup Users \cup Therapists

\* ------------------------------------------------------------ SQL statements

\* the store accepts the value for an INTEGER parameter; otherwise the
\* statement fails with 'invalid input syntax for type integer'
BindsAsInteger(v) == v # TextReason

\* the SELECT of bookSlot without its status condition
SelectAvailableSlot_AnyStatus(S, slotId) ==
    {x \in DOMAIN S : x = slotId}

\* SELECT * FROM availability_slots WHERE id = $1 AND status = 'available'
SelectAvailableSlot(S, slotId) ==
    {x \in DOMAIN S : x = slotId /\ S[x].status = "available"}

\* UPDATE availability_slots SET status = $st WHERE id = $1
UpdateSlotStatus(S, slotId, st) ==
    [x \in DOMAIN S |-> IF x = slotId THEN [S[x] EXCEPT !.status = st] ELSE S[x]]

\* rows matched by  WHERE id = $1 AND therapist_id = $2
SelectOwnedSlot(S, slotId, therapistId) ==
    {x \in DOMAIN S : x = slotId /\ S[x].therapist_id = therapistId}

\* UPDATE availability_slots SET status = $st WHERE id = $1 AND therapist_id = $2
UpdateOwnedSlotStatus(S, slotId, therapistId, st) ==
    [x \in DOMAIN S |->
        IF x \in SelectOwnedSlot(S, slotId, therapistId)
        THEN [S[x] EXCEPT !.status = st] ELSE S[x]]

\* the INSERT INTO session_bookings without the foreign key of
\* availability_slot_id
InsertBookingOk_NoForeignKey(S, slotId, stypeLen) ==
    stypeLen <= VarcharLimit

\* the INSERT INTO session_bookings succeeds: session_type fits VARCHAR(20)
\* and availability_slot_id references an existing slot (NULL therapist_id
\* passes its foreign key)
InsertBookingOk(S, slotId, stypeLen) ==
    /\ stypeLen <= VarcharLimit
    /\ slotId \in DOMAIN S

\* INSERT INTO session_bookings (therapist_id, user_id, availability_slot_id, ...)
\* status takes the column default 'scheduled'
InsertBooking(B, id, therapistId, userId, slotId) ==
    B @@ (id :> [therapist_id |-> therapistId, user_id |-> userId,
                 availability_slot_id |-> slotId, status |-> "scheduled"])

\* the UPDATE of cancelSlot without its WHERE clause
CancelBookingsOfSlot_NoWhere(B, slotId) ==
    [b \in DOMAIN B |-> [B[b] EXCEPT !.status = "cancelled"]]

\* UPDATE session_bookings SET status = 'cancelled' WHERE availability_slot_id = $1
CancelBookingsOfSlot(B, slotId) ==
    [b \in DOMAIN B |->
        IF B[b].availability_slot_id = slotId
        THEN [B[b] EXCEPT !.status = "cancelled"] ELSE B[b]]

\* rows matched by  WHERE id = $1 AND therapist_id = $2   (role psychiatrist)
\*              or  WHERE id = $1 AND user_id = $2        (any other role)
SelectSession(B, bookingId, role, callerId) ==
    {b \in DOMAIN B :
        /\ b = bookingId
        /\ IF role = "psychiatrist" THEN B[b].therapist_id = callerId
                                    ELSE B[b].user_id = callerId}

\* UPDATE session_bookings SET status = $st <whereClause>
UpdateSessionStatus(B, bookingId, role, callerId, st) ==
    [b \in DOMAIN B |->
        IF b \in SelectSession(B, bookingId, role, callerId)
        THEN [B[b] EXCEPT !.status = st] ELSE B[b]]

\* UPDATE availability_slots SET status = 'available'
\*  WHERE id = (SELECT availability_slot_id FROM session_bookings WHERE id = $1)
ReleaseSlotOfSession(S, B, bookingId) ==
    [x \in DOMAIN S |->
        IF bookingId \in DOMAIN B /\ B[bookingId].availability_slot_id = x
        THEN [S[x] EXCEPT !.status = "available"] ELSE S[x]]

\* the DELETE of deleteSlot without its therapist_id condition
DeletableSlot_AnyOwner(S, slotId, therapistId) ==
    {x \in DOMAIN S : x = slotId /\ S[x].status = "available"}

\* the DELETE of deleteSlot without its status condition
DeletableSlot_AnyStatus(S, slotId, therapistId) ==
    SelectOwnedSlot(S, slotId, therapistId)

\* DELETE FROM availability_slots WHERE id = $1 AND therapist_id = $2 AND status = 'available'
DeletableSlot(S, slotId, therapistId) ==
    {x \in SelectOwnedSlot(S, slotId, therapistId) : S[x].status = "available"}

\* session_bookings.availability_slot_id ... ON DELETE CASCADE
CascadeDeleteBookings(B, gone) ==
    [b \in {x \in DOMAIN B : B[x].availability_slot_id \notin gone} |-> B[b]]

\* ------------------------------------------------------------------ helpers
ActiveBookings(B, slotId) ==
    {b \in DOMAIN B : B[b].availability_slot_id = slotId /\ B[b].status # "cancelled"}

\* a served request: the operation, its target id, the caller's role and id,
\* and the response
Response(op, id, role, caller, result) ==
    [op |-> op, id |-> id, role |-> role, caller |-> caller, result |-> result]

TypeOK ==
    /\ DOMAIN slots \subseteq SlotIds
    /\ \A s \in DOMAIN slots :
          slots[s].therapist_id \in Therapists /\ slots[s].status \in SlotStatuses
    /\ DOMAIN bookings \subseteq BookingIds
    /\ \A b \in DOMAIN bookings :
          /\ bookings[b].therapist_id \in Therapists \cup {NullId}
          /\ bookings[b].user_id \in Users
          /\ bookings[b].availability_slot_id \in SlotIds
          /\ bookings[b].status \in BookingStatuses
    /\ nextSlotId \in 1..(MaxSlots + 1)
    /\ nextBookingId \in 1..(MaxBookings + 1)

\* an empty store, no request served yet, every handler idle
Init ==
    /\ slots = << >>
    /\ bookings = << >>
    /\ nextSlotId = 1
    /\ nextBookingId = 1
    /\ last = NoRequest
    /\ pc = [p \in Procs |-> "idle"]
    /\ req = [p \in Procs |-> NoLocals]
    /\ templates = << >>
    /\ nextTemplateId = 1
    /\ now = 0

\* ------------------------------------------- whole request handlers (Spec)

\* POST /slots : Availability.createSlot
CreateSlot(t, st) ==
    /\ last = NoRequest
    /\ nextSlotId <= MaxSlots
    /\ slots' = slots @@ (nextSlotId :> [therapist_id |-> t, status |-> st])
    /\ nextSlotId' = nextSlotId + 1
    /\ last' = Response("createSlot", nextSlotId, "psychiatrist", t, "ok")
    /\ UNCHANGED <<sched, bookings, nextBookingId, pc, req>>

\* PUT /slots/:slotId : Availability.updateSlot; the validated body always
\* carries status (defaulted to 'available' when the caller omits it)
UpdateSlot(t, s, st) ==
    /\ last = NoRequest
    /\ slots' = UpdateOwnedSlotStatus(slots, s, t, st)
    /\ last' = Response("updateSlot", s, "psychiatrist", t,
                        IF SelectOwnedSlot(slots, s, t) = {} THEN "NotFound" ELSE "ok")
    /\ UNCHANGED <<sched, bookings, nextSlotId, nextBookingId, pc, req>>

\* DELETE /slots/:slotId : Availability.deleteSlot
DeleteSlot(t, s) ==
    LET gone == DeletableSlot(slots, s, t) IN
    /\ last = NoRequest
    /\ slots' = [x \in DOMAIN slots \ gone |-> slots[x]]
    /\ bookings' = CascadeDeleteBookings(bookings, gone)
    /\ last' = Response("deleteSlot", s, "psychiatrist", t, IF gone = {} THEN "NotFound" ELSE "ok")
    /\ UNCHANGED <<sched, nextSlotId, nextBookingId, pc, req>>

\* the outcome of Availability.bookSlot on store S: the thrown
\* 'Availability slot not found or not available' (SlotUnavailable), a store
\* error thrown by the INSERT (error), or the returned slot and booking (ok)
BookSlotResult(S, s, stypeLen) ==
    IF SelectAvailableSlot(S, s) = {} THEN "SlotUnavailable"
    ELSE IF InsertBookingOk(UpdateSlotStatus(S, s, "booked"), s, stypeLen) THEN "ok"
    ELSE "error"

\* POST /slots/:slotId/book : Availability.bookSlot
BookSlot(u, s, stypeLen) ==
    LET result == BookSlotResult(slots, s, stypeLen) IN
    /\ last = NoRequest
    /\ result = "ok" => nextBookingId <= MaxBookings
    /\ slots' = IF result = "SlotUnavailable" THEN slots
                ELSE UpdateSlotStatus(slots, s, "booked")
    /\ bookings' = IF result = "ok"
                   THEN InsertBooking(bookings, nextBookingId, slots[s].therapist_id, u, s)
                   ELSE bookings
    /\ nextBookingId' = IF result = "ok" THEN nextBookingId + 1 ELSE nextBookingId
    /\ last' = Response("bookSlot", s, "user", u, result)
    /\ UNCHANGED <<sched, nextSlotId, pc, req>>

\* POST /sessions/book : ClientController.bookSession; therapist_id is not a
\* key of sessionBookingSchema, so the validated body carries none and the
\* booking row gets a NULL therapist_id
BookSession(u, s) ==
    /\ last = NoRequest
    /\ IF InsertBookingOk(slots, s, IndividualLen)
       THEN /\ nextBookingId <= MaxBookings
            /\ bookings' = InsertBooking(bookings, nextBookingId, NullId, u, s)
            /\ nextBookingId' = nextBookingId + 1
            /\ slots' = UpdateSlotStatus(slots, s, "booked")
            /\ last' = Response("bookSession", s, "user", u, "ok")
            /\ UNCHANGED <<sched, nextSlotId, pc, req>>
       ELSE /\ last' = Response("bookSession", s, "user", u, "error")
            /\ UNCHANGED <<sched, db, pc, req>>

\* POST /slots/:slotId/cancel : Availability.cancelSlot
CancelSlot(t, s) ==
    /\ last = NoRequest
    /\ slots' = UpdateOwnedSlotStatus(slots, s, t, "cancelled")
    /\ bookings' = CancelBookingsOfSlot(bookings, s)
    /\ last' = Response("cancelSlot", s, "psychiatrist", t,
                        IF SelectOwnedSlot(slots, s, t) = {} THEN "NotFound" ELSE "ok")
    /\ UNCHANGED <<sched, nextSlotId, nextBookingId, pc, req>>

\* DELETE /sessions/:sessionId : ClientController.cancelSession.  The
\* parameter list is [sessionId, reason || 'Session cancelled', callerId] while
\* the statement reads $2 in its WHERE clause and $3 in its notes expression:
\* the id column is compared with the reason, and the caller's id is only
\* appended to the notes
CancelSession(role, c, b, reason) ==
    /\ last = NoRequest
    /\ IF ~BindsAsInteger(reason)
       THEN /\ last' = Response("cancelSession", b, role, c, "error")
            /\ UNCHANGED <<sched, db, pc, req>>
       ELSE IF SelectSession(bookings, b, role, reason) = {}
       THEN /\ last' = Response("cancelSession", b, role, c, "NotFound")
            /\ UNCHANGED <<sched, db, pc, req>>
       ELSE LET cancelled == UpdateSessionStatus(bookings, b, role, reason, "cancelled") IN
            /\ bookings' = cancelled
            /\ slots' = ReleaseSlotOfSession(slots, cancelled, b)
            /\ last' = Response("cancelSession", b, role, c, "ok")
            /\ UNCHANGED <<sched, nextSlotId, nextBookingId, pc, req>>

\* PUT /sessions/:sessionId : ClientController.updateSession; status is
\* taken from the unvalidated body, st = Undefined is a notes-only update
UpdateSession(role, c, b, st) ==
    /\ last = NoRequest
    /\ IF SelectSession(bookings, b, role, c) = {}
       THEN /\ last' = Response("updateSession", b, role, c, "NotFound")
            /\ UNCHANGED <<sched, db, pc, req>>
       ELSE /\ bookings' = IF st = Undefined THEN bookings
                           ELSE UpdateSessionStatus(bookings, b, role, c, st)
            /\ last' = Response("updateSession", b, role, c, "ok")
            /\ UNCHANGED <<sched, slots, nextSlotId, nextBookingId, pc, req>>

\* res.json(...) / res.status(...).json(...): the response leaves the service
\* and the next request is taken
Respond ==
    /\ last # NoRequest
    /\ last' = NoRequest
    /\ UNCHANGED <<sched, db, pc, req>>

Callers == ({"psychiatrist"} \X Therapists) \cup ({"user"} \X Users)

Next ==
    \/ \E t \in Therapists, st \in SlotStatuses : CreateSlot(t, st)
    \/ \E t \in Therapists, s \in SlotIds, st \in SlotStatuses : UpdateSlot(t, s, st)
    \/ \E t \in Therapists, s \in SlotIds : DeleteSlot(t, s)
    \/ \E u \in Users, s \in SlotIds, n \in SessionTypeLens : BookSlot(u, s, n)
    \/ \E u \in Users, s \in SlotIds : BookSession(u, s)
    \/ \E t \in Therapists, s \in SlotIds : CancelSlot(t, s)
    \/ \E c \in Callers, b \in BookingIds, r \in ReasonInputs :
          CancelSession(c[1], c[2], b, r)
    \/ \E c \in Callers, b \in BookingIds, st \in BookingStatuses \cup {Undefined} :
          UpdateSession(c[1], c[2], b, st)
    \/ Respond

Spec == Init /\ [][Next]_vars

\* -------------------------- request handlers, one SQL statement per step

\* the handler has sent its response: its locals are gone, the response
\* (which names the operation and its target, not the caller) stays visible
Responded(op, id, result) ==
    [NoLocals EXCEPT !.op = op, !.id = id, !.result = result]

\* Availability.bookSlot, first statement: the SELECT and the test of its rows
BookSelect(p, u, s, stypeLen) ==
    /\ pc[p] = "idle"
    /\ IF SelectAvailableSlot(slots, s) = {}
       THEN /\ pc' = [pc EXCEPT ![p] = "done"]
            /\ req' = [req EXCEPT ![p] = Responded("bookSlot", s, "SlotUnavailable")]
       ELSE /\ pc' = [pc EXCEPT ![p] = "book_update"]
            /\ req' = [req EXCEPT ![p] =
                          [op |-> "bookSlot", id |-> s, caller |-> u, stype |-> stypeLen,
                           therapist_id |-> slots[s].therapist_id, result |-> "none"]]
    /\ UNCHANGED <<sched, db, last>>

\* Availability.bookSlot, second statement: the UPDATE to 'booked'
BookUpdate(p) ==
    /\ pc[p] = "book_update"
    /\ slots' = UpdateSlotStatus(slots, req[p].id, "booked")
    /\ pc' = [pc EXCEPT ![p] = "book_insert"]
    /\ UNCHANGED <<sched, bookings, nextSlotId, nextBookingId, last, req>>

\* Availability.bookSlot, third statement: the INSERT of the booking
BookInsert(p) ==
    /\ pc[p] = "book_insert"
    /\ IF InsertBookingOk(slots, req[p].id, req[p].stype)
       THEN /\ nextBookingId <= MaxBookings
            /\ bookings' = InsertBooking(bookings, nextBookingId, req[p].therapist_id,
                                         req[p].caller, req[p].id)
            /\ nextBookingId' = nextBookingId + 1
            /\ req' = [req EXCEPT ![p] = Responded("bookSlot", req[p].id, "ok")]
       ELSE /\ req' = [req EXCEPT ![p] =
                          Responded("bookSlot", req[p].id, "error")]
            /\ UNCHANGED <<sched, bookings, nextBookingId>>
    /\ pc' = [pc EXCEPT ![p] = "done"]
    /\ UNCHANGED <<sched, slots, nextSlotId, last>>

\* Availability.cancelSlot, first statement: the UPDATE of the slot
CancelSlotUpdate(p, t, s) ==
    /\ pc[p] = "idle"
    /\ slots' = UpdateOwnedSlotStatus(slots, s, t, "cancelled")
    /\ pc' = [pc EXCEPT ![p] = "cancel_bookings"]
    /\ req' = [req EXCEPT ![p] =
                  Responded("cancelSlot", s,
                            IF SelectOwnedSlot(slots, s, t) = {} THEN "NotFound" ELSE "ok")]
    /\ UNCHANGED <<sched, bookings, nextSlotId, nextBookingId, last>>

\* Availability.cancelSlot, second statement: the UPDATE of the bookings
CancelSlotBookings(p) ==
    /\ pc[p] = "cancel_bookings"
    /\ bookings' = CancelBookingsOfSlot(bookings, req[p].id)
    /\ pc' = [pc EXCEPT ![p] = "done"]
    /\ UNCHANGED <<sched, slots, nextSlotId, nextBookingId, last, req>>

\* Availability.updateSlot: its single UPDATE
UpdateSlotStmt(p, t, s, st) ==
    /\ pc[p] = "idle"
    /\ slots' = UpdateOwnedSlotStatus(slots, s, t, st)
    /\ pc' = [pc EXCEPT ![p] = "done"]
    /\ req' = [req EXCEPT ![p] =
                  Responded("updateSlot", s,
                            IF SelectOwnedSlot(slots, s, t) = {} THEN "NotFound" ELSE "ok")]
    /\ UNCHANGED <<sched, bookings, nextSlotId, nextBookingId, last>>

\* the response has been sent: the worker takes the next request
Return(p) ==
    /\ pc[p] = "done"
    /\ pc' = [pc EXCEPT ![p] = "idle"]
    /\ req' = [req EXCEPT ![p] = NoLocals]
    /\ UNCHANGED <<sched, db, last>>

\* a store in which the providers have created MaxSlots available slots
InitConc ==
    /\ slots \in [SlotIds -> [therapist_id : Therapists, status : {"available"}]]
    /\ bookings = << >>
    /\ nextSlotId = MaxSlots + 1
    /\ nextBookingId = 1
    /\ last = NoRequest
    /\ pc = [p \in Procs |-> "idle"]
    /\ req = [p \in Procs |-> NoLocals]
    /\ templates = << >>
    /\ nextTemplateId = 1
    /\ now = 0

NextRace ==
    \/ \E p \in Procs, u \in Users, s \in SlotIds, n \in SessionTypeLens : BookSelect(p, u, s, n)
    \/ \E p \in Procs : BookUpdate(p)
    \/ \E p \in Procs : BookInsert(p)
    \/ \E p \in Procs : Return(p)

\* concurrent clients that only call bookSlot
SpecRace == InitConc /\ [][NextRace]_vars

NextConc ==
    \/ NextRace
    \/ \E p \in Procs, t \in Therapists, s \in SlotIds : CancelSlotUpdate(p, t, s)
    \/ \E p \in Procs : CancelSlotBookings(p)
    \/ \E p \in Procs, t \in Therapists, s \in SlotIds, st \in SlotStatuses :
          UpdateSlotStmt(p, t, s, st)

\* concurrent bookSlot, cancelSlot and updateSlot requests
SpecConc == InitConc /\ [][NextConc]_vars

\* ====================================================== dates and times
\* A timestamp is a number of minutes since 1970-01-01 00:00, a date is a
\* number of days since 1970-01-01, a TIME value is a number of minutes since
\* midnight.  The process and the store are taken to run in UTC.

\* further bounds
MaxHour == 1
MaxDay == 1
MaxTicks == 3
MaxTemplates == 1

MinutesPerHour == 60
HoursPerDay == 24
MinutesPerDay == HoursPerDay * MinutesPerHour
DaysPerWeek == 7
\* Date.prototype.getDay() of 1970-01-01 (a Thursday)
EpochDay == 4
\* the time value NaN of an Invalid Date
InvalidDate == -1
\* NOW() - INTERVAL '1 hour'
GraceMinutes == MinutesPerHour
\* cron '0 * * * *'
CronMinutes == MinutesPerHour
\* Joi defaults of availabilityTemplateSchema
DefaultSessionDuration == 60
DefaultBreak == 15
\* 09:00 and 10:00 as TIME values
NineOClock == 9 * MinutesPerHour
TenOClock == 10 * MinutesPerHour

Days == 0..MaxDay
TemplateIds == 1..MaxTemplates
\* start_datetime / end_datetime of a request body: whole hours of day 0
SlotTimes == {h * MinutesPerHour : h \in 0..MaxHour}
\* start_time / end_time of a template request body ('HH:MM')
TemplateTimes == {NineOClock, TenOClock}

\* Date.prototype.getDay(): 0 = Sunday .. 6 = Saturday
GetDay(date) == (date + EpochDay) % DaysPerWeek
\* day_of_week of a template request body: the weekdays of the modelled days
TemplateDays == {GetDay(d) : d \in Days}

\* currentDate.toISOString().split('T')[0]: a string naming the date
DateStr(date) == [type |-> "string", date |-> date]
\* a Date object at midnight of the date (Joi.date().iso() converts an ISO
\* date string of the body to a Date)
DateObject(date) == [type |-> "Date", date |-> date]
\* exclude_dates of a validated body: an array of Date objects
ExcludeInputs == {<< >>} \cup {<<DateObject(d)>> : d \in Days}

\* Array.prototype.includes: SameValueZero of each element with x
Includes(array, x) == \E i \in 1..Len(array) : array[i] = x

\* the text of a TIME value as it was sent in the request body: 'HH:MM'
TimeText_HHMM(t) == <<t \div MinutesPerHour, t % MinutesPerHour>>

\* the text the store returns for a TIME column, which the driver hands over
\* unparsed: 'HH:MM:SS', as its colon-separated fields
TimeText(t) == <<t \div MinutesPerHour, t % MinutesPerHour, 0>>

\* the template literal `${date}T${time}:00`
DateTimeString(dateStr, timeText) == [date |-> dateStr.date, time |-> Append(timeText, 0)]

\* new Date(string) for a string with the time separator T: the time part
\* must read HH:mm or HH:mm:ss up to the end of the string; any other string
\* gives an Invalid Date
ParseDate(str) ==
    IF Len(str.time) \in {2, 3}
    THEN str.date * MinutesPerDay + str.time[1] * MinutesPerHour + str.time[2]
    ELSE InvalidDate

\* a < b on Date objects: false as soon as one side is NaN
DateLess(a, b) == a # InvalidDate /\ b # InvalidDate /\ a < b
\* a <= b on Date objects
DateLeq(a, b) == a # InvalidDate /\ b # InvalidDate /\ a <= b

\* the while loop of generateTimeSlotsForDay, from cursor currentTime
\* the while loop of generateTimeSlotsForDay without the test that the slot
\* fits: the last slot may end after the window
RECURSIVE TimeSlotsFrom_NoFitTest(_, _, _, _)
TimeSlotsFrom_NoFitTest(currentTime, endDateTime, sessionDuration, breakTime) ==
    IF ~DateLess(currentTime, endDateTime) THEN << >>
    ELSE <<[start_datetime |-> currentTime, end_datetime |-> currentTime + sessionDuration]>>
           \o TimeSlotsFrom_NoFitTest(currentTime + sessionDuration + breakTime,
                                      endDateTime, sessionDuration, breakTime)

\* the while loop of generateTimeSlotsForDay cutting the last slot at the end
\* of the window instead of dropping it
RECURSIVE TimeSlotsFrom_Truncating(_, _, _, _)
TimeSlotsFrom_Truncating(currentTime, endDateTime, sessionDuration, breakTime) ==
    IF ~DateLess(currentTime, endDateTime) THEN << >>
    ELSE LET slotEnd == currentTime + sessionDuration IN
         IF DateLeq(slotEnd, endDateTime)
         THEN <<[start_datetime |-> currentTime, end_datetime |-> slotEnd]>>
                \o TimeSlotsFrom_Truncating(slotEnd + breakTime, endDateTime,
                                            sessionDuration, breakTime)
         ELSE <<[start_datetime |-> currentTime, end_datetime |-> endDateTime]>>

RECURSIVE TimeSlotsFrom(_, _, _, _)
TimeSlotsFrom(currentTime, endDateTime, sessionDuration, breakTime) ==
    IF ~DateLess(currentTime, endDateTime) THEN << >>
    ELSE LET slotEnd == currentTime + sessionDuration IN
         IF DateLeq(slotEnd, endDateTime)
         THEN <<[start_datetime |-> currentTime, end_datetime |-> slotEnd]>>
                \o TimeSlotsFrom(slotEnd + breakTime, endDateTime, sessionDuration, breakTime)
         ELSE << >>

\* Availability.generateTimeSlotsForDay(date, startTime, endTime, sessionDuration, breakTime)
generateTimeSlotsForDay(date, startTime, endTime, sessionDuration, breakTime) ==
    TimeSlotsFrom(ParseDate(DateTimeString(date, startTime)),
                  ParseDate(DateTimeString(date, endTime)),
                  sessionDuration, breakTime)

\* the while loop over the dates of generateSlotsFromTemplate: the slot data
\* handed to createSlot, in order
RECURSIVE SlotDataFrom(_, _, _, _)
SlotDataFrom(template, currentDate, endDate, excludeDates) ==
    IF currentDate > endDate THEN << >>
    ELSE (IF /\ GetDay(currentDate) = template.day_of_week
             /\ ~Includes(excludeDates, DateStr(currentDate))
          THEN generateTimeSlotsForDay(DateStr(currentDate),
                                       TimeText(template.start_time),
                                       TimeText(template.end_time),
                                       template.session_duration,
                                       template.break_between_sessions)
          ELSE << >>)
         \o SlotDataFrom(template, currentDate + 1, endDate, excludeDates)

\* the SELECT of generateSlotsFromTemplate without its is_active condition
SelectActiveTemplate_AnyFlag(T, templateId) ==
    {x \in DOMAIN T : x = templateId}

\* SELECT * FROM availability_templates WHERE id = $1 AND is_active = true
SelectActiveTemplate(T, templateId) ==
    {x \in DOMAIN T : x = templateId /\ T[x].is_active}

\* INSERT INTO availability_slots (therapist_id, start_datetime, end_datetime, status, ...)
InsertSlot(S, id, therapistId, start, end, st) ==
    S @@ (id :> [therapist_id |-> therapistId, status |-> st,
                 start_datetime |-> start, end_datetime |-> end])

\* the INSERTs of the createSlot calls of one generation run, ids from first on
RECURSIVE InsertSlots(_, _, _, _)
InsertSlots(S, first, therapistId, slotData) ==
    IF slotData = << >> THEN S
    ELSE InsertSlots(InsertSlot(S, first, therapistId, slotData[1].start_datetime,
                                slotData[1].end_datetime, "available"),
                     first + 1, therapistId, Tail(slotData))

\* UPDATE availability_slots SET start_datetime = $1, end_datetime = $2, status = $3, ...
\*  WHERE id = $n AND therapist_id = $m
UpdateOwnedSlot(S, slotId, therapistId, start, end, st) ==
    [x \in DOMAIN S |->
        IF x \in SelectOwnedSlot(S, slotId, therapistId)
        THEN [S[x] EXCEPT !.status = st, !.start_datetime = start, !.end_datetime = end]
        ELSE S[x]]

\* the rows of  WHERE status = 'available' AND end_datetime < NOW() - INTERVAL '1 hour'
\* without the status condition
ExpiredSlots_AnyStatus(S, t) ==
    {x \in DOMAIN S : S[x].end_datetime < t - GraceMinutes}

\* the rows of  WHERE status = 'available' AND end_datetime < NOW() - INTERVAL '1 hour'
ExpiredSlots(S, t) ==
    {x \in DOMAIN S : S[x].status = "available" /\ S[x].end_datetime < t - GraceMinutes}

\* a DELETE that returns its rows and removes none
DeleteRows_None(S, gone) == S

\* DELETE FROM availability_slots: the table without the rows gone
DeleteRows(S, gone) == [x \in DOMAIN S \ gone |-> S[x]]

\* ------------------- whole request handlers on slots with times (SpecSlots)

\* POST /slots : Availability.createSlot with the interval of the validated
\* body; the response carries the stored row
CreateSlotTimed(t, start, end, st) ==
    /\ last = NoRequest
    /\ nextSlotId <= MaxSlots
    /\ slots' = InsertSlot(slots, nextSlotId, t, start, end, st)
    /\ nextSlotId' = nextSlotId + 1
    /\ last' = [op |-> "createSlot", id |-> nextSlotId, role |-> "psychiatrist",
                caller |-> t, result |-> "ok",
                start_datetime |-> start, end_datetime |-> end]
    /\ UNCHANGED <<sched, bookings, nextBookingId, pc, req>>

\* PUT /slots/:slotId : Availability.updateSlot; the validated body always
\* carries start_datetime, end_datetime (required) and status (defaulted)
UpdateSlotTimed(t, s, start, end, st) ==
    /\ last = NoRequest
    /\ slots' = UpdateOwnedSlot(slots, s, t, start, end, st)
    /\ last' = Response("updateSlot", s, "psychiatrist", t,
                        IF SelectOwnedSlot(slots, s, t) = {} THEN "NotFound" ELSE "ok")
    /\ UNCHANGED <<sched, bookings, nextSlotId, nextBookingId, pc, req>>

\* POST /templates : Availability.createTemplate with the validated body
CreateTemplate(t, day, start, end, duration, break, active) ==
    /\ last = NoRequest
    /\ nextTemplateId <= MaxTemplates
    /\ templates' = templates @@
          (nextTemplateId :> [therapist_id |-> t, day_of_week |-> day,
                              start_time |-> start, end_time |-> end,
                              session_duration |-> duration,
                              break_between_sessions |-> break,
                              is_active |-> active])
    /\ nextTemplateId' = nextTemplateId + 1
    /\ last' = Response("createTemplate", nextTemplateId, "psychiatrist", t, "ok")
    /\ UNCHANGED <<db, pc, req, now>>

\* the generation request repeats the one just answered: same template, same
\* date range, same excluded dates
RepeatsGeneration(templateId, startDate, endDate, excludeDates) ==
    /\ last.op = "generateSlots"
    /\ last.result = "ok"
    /\ last.id = templateId
    /\ last.start_date = startDate
    /\ last.end_date = endDate
    /\ last.exclude_dates = excludeDates

\* POST /generate : AvailabilityController.generateSlotsFromTemplate and
\* Availability.generateSlotsFromTemplate; the template is looked up by id
\* alone and the slots are created for the template's therapist.  The same
\* request can be sent again as soon as it is answered.
GenerateSlots(t, templateId, startDate, endDate, excludeDates) ==
    /\ last = NoRequest \/ last.op = "generateSlots"
    /\ IF SelectActiveTemplate(templates, templateId) = {}
       THEN /\ last' = [op |-> "generateSlots", id |-> templateId, role |-> "psychiatrist",
                        caller |-> t, result |-> "error", start_date |-> startDate,
                        end_date |-> endDate, exclude_dates |-> excludeDates,
                        count |-> 0, repeat |-> FALSE]
            /\ UNCHANGED <<db, sched, pc, req>>
       ELSE LET template == templates[templateId]
                slotData == SlotDataFrom(template, startDate, endDate, excludeDates) IN
            /\ nextSlotId + Len(slotData) - 1 <= MaxSlots
            /\ slots' = InsertSlots(slots, nextSlotId, template.therapist_id, slotData)
            /\ nextSlotId' = nextSlotId + Len(slotData)
            /\ last' = [op |-> "generateSlots", id |-> templateId, role |-> "psychiatrist",
                        caller |-> t, result |-> "ok", start_date |-> startDate,
                        end_date |-> endDate, exclude_dates |-> excludeDates,
                        count |-> Len(slotData),
                        repeat |-> RepeatsGeneration(templateId, startDate, endDate,
                                                     excludeDates)]
            /\ UNCHANGED <<sched, bookings, nextBookingId, pc, req>>

\* an empty store
InitSlots == Init

NextSlots ==
    \/ \E t \in Therapists, start \in SlotTimes, end \in SlotTimes, st \in SlotStatuses :
          CreateSlotTimed(t, start, end, st)
    \/ \E t \in Therapists, s \in SlotIds, start \in SlotTimes, end \in SlotTimes,
          st \in SlotStatuses : UpdateSlotTimed(t, s, start, end, st)
    \/ \E u \in Users, s \in SlotIds : BookSlot(u, s, IndividualLen)
    \/ \E t \in Therapists, s \in SlotIds : CancelSlot(t, s)
    \/ Respond

\* one caller at a time creating, updating, booking and cancelling slots that
\* carry their interval
SpecSlots == InitSlots /\ [][NextSlots]_vars

\* an empty store
InitTemplates == Init

NextTemplates ==
    \/ \E t \in Therapists, day \in TemplateDays, start \in TemplateTimes,
          end \in TemplateTimes, active \in BOOLEAN :
          CreateTemplate(t, day, start, end, DefaultSessionDuration, DefaultBreak, active)
    \/ \E t \in Therapists, tpl \in TemplateIds, d1 \in Days, d2 \in Days,
          ex \in ExcludeInputs : GenerateSlots(t, tpl, d1, d2, ex)
    \/ \E t \in Therapists, start \in SlotTimes, end \in SlotTimes :
          CreateSlotTimed(t, start, end, "available")
    \/ Respond

\* one caller at a time creating templates, generating slots from them and
\* creating slots by hand
SpecTemplates == InitTemplates /\ [][NextTemplates]_vars

\* ------------------------- deleteSlot against concurrent bookSlot (SpecDelete)

\* Availability.deleteSlot: its single DELETE, with the cascade to the
\* bookings of the removed row; the response names the provider it goes to
DeleteSlotStmt(p, t, s) ==
    LET gone == DeletableSlot(slots, s, t) IN
    /\ pc[p] = "idle"
    /\ slots' = DeleteRows(slots, gone)
    /\ bookings' = CascadeDeleteBookings(bookings, gone)
    /\ pc' = [pc EXCEPT ![p] = "done"]
    /\ req' = [req EXCEPT ![p] =
                  [Responded("deleteSlot", s, IF gone = {} THEN "NotFound" ELSE "ok")
                      EXCEPT !.caller = t]]
    /\ UNCHANGED <<sched, nextSlotId, nextBookingId, last>>

\* a store in which the providers have created MaxSlots slots, each with the
\* status its request body named
InitDelete ==
    /\ slots \in [SlotIds -> [therapist_id : Therapists, status : SlotStatuses]]
    /\ bookings = << >>
    /\ nextSlotId = MaxSlots + 1
    /\ nextBookingId = 1
    /\ last = NoRequest
    /\ pc = [p \in Procs |-> "idle"]
    /\ req = [p \in Procs |-> NoLocals]
    /\ templates = << >>
    /\ nextTemplateId = 1
    /\ now = 0

NextDelete ==
    \/ NextRace
    \/ \E p \in Procs, t \in Therapists, s \in SlotIds : DeleteSlotStmt(p, t, s)

\* concurrent bookSlot and deleteSlot requests
SpecDelete == InitDelete /\ [][NextDelete]_vars

\* --------------------------------------- the scheduled cleanup (SpecSweep)

\* time passes between two requests: the clock of the store moves on to the
\* next full hour
Tick ==
    /\ last = NoRequest
    /\ now < MaxTicks * CronMinutes
    /\ now' = now + CronMinutes
    /\ UNCHANGED <<db, last, pc, req, templates, nextTemplateId>>

\* cron.schedule('0 * * * *') -> cleanupExpiredAvailability ->
\* Availability.cleanupExpiredSlots: its single DELETE, with the cascade to
\* the bookings of the removed rows, and the logged rowCount.  The job is
\* started by the scheduler, not by a request: it can run again right after
\* it has run.
CleanupExpiredSlots ==
    LET gone == ExpiredSlots(slots, now) IN
    /\ last = NoRequest \/ last.op = "cleanupExpiredSlots"
    /\ slots' = DeleteRows(slots, gone)
    /\ bookings' = CascadeDeleteBookings(bookings, gone)
    /\ last' = [op |-> "cleanupExpiredSlots", id |-> NullId, role |-> "cron",
                caller |-> NullId, result |-> "ok", count |-> Cardinality(gone),
                repeat |-> last.op = "cleanupExpiredSlots"]
    /\ UNCHANGED <<sched, nextSlotId, nextBookingId, pc, req>>

\* an empty store at time 0
InitSweep == Init

NextSweep ==
    \/ \E t \in Therapists, start \in SlotTimes, end \in SlotTimes, st \in SlotStatuses :
          CreateSlotTimed(t, start, end, st)
    \/ \E u \in Users, s \in SlotIds : BookSlot(u, s, IndividualLen)
    \/ Tick
    \/ CleanupExpiredSlots
    \/ Respond

\* slots are created and booked while the clock advances and the cleanup runs
SpecSweep == InitSweep /\ [][NextSweep]_vars

\* ------------------------------ concurrent generation runs (SpecGenerate)

\* the locals of a generation run: its arguments, the therapist of the
\* template row it read, the slot data it has yet to hand to createSlot, and
\* its response once it has one
GenerationLocals(templateId, startDate, endDate, therapistId, slotData, result) ==
    [op |-> "generateSlots", id |-> templateId, caller |-> NullId, stype |-> 0,
     therapist_id |-> therapistId, result |-> result,
     start_date |-> startDate, end_date |-> endDate, pending |-> slotData]

\* Availability.generateSlotsFromTemplate, first statement: the SELECT of the
\* template.  The slot data depend on the row read here and on the arguments
\* only, so they are computed at once and inserted one by one.
GenerateSelect(p, templateId, startDate, endDate, excludeDates) ==
    /\ pc[p] = "idle"
    /\ IF SelectActiveTemplate(templates, templateId) = {}
       THEN /\ pc' = [pc EXCEPT ![p] = "done"]
            /\ req' = [req EXCEPT ![p] =
                          GenerationLocals(templateId, startDate, endDate, NullId,
                                           << >>, "error")]
       ELSE /\ pc' = [pc EXCEPT ![p] = "generate_create"]
            /\ req' = [req EXCEPT ![p] =
                          GenerationLocals(templateId, startDate, endDate,
                                           templates[templateId].therapist_id,
                                           SlotDataFrom(templates[templateId], startDate,
                                                        endDate, excludeDates),
                                           "none")]
    /\ UNCHANGED <<sched, db, last>>

\* Availability.generateSlotsFromTemplate, one turn of its loops: the INSERT
\* of createSlot for the next slot data, or the return once none is left
GenerateCreateSlot(p) ==
    /\ pc[p] = "generate_create"
    /\ IF req[p].pending # << >>
       THEN /\ nextSlotId <= MaxSlots
            /\ slots' = InsertSlot(slots, nextSlotId, req[p].therapist_id,
                                   req[p].pending[1].start_datetime,
                                   req[p].pending[1].end_datetime, "available")
            /\ nextSlotId' = nextSlotId + 1
            /\ req' = [req EXCEPT ![p].pending = Tail(req[p].pending)]
            /\ UNCHANGED <<sched, bookings, nextBookingId, last, pc>>
       ELSE /\ pc' = [pc EXCEPT ![p] = "done"]
            /\ req' = [req EXCEPT ![p].result = "ok"]
            /\ UNCHANGED <<sched, db, last>>

\* the rows POST /templates can store
TemplateRows ==
    [therapist_id : Therapists, day_of_week : TemplateDays, start_time : TemplateTimes,
     end_time : TemplateTimes, session_duration : {DefaultSessionDuration},
     break_between_sessions : {DefaultBreak}, is_active : BOOLEAN]

\* the stores with one available slot of one provider
OneSlotStores ==
    {1 :> [therapist_id |-> t, status |-> "available",
           start_datetime |-> start, end_datetime |-> end] :
        t \in Therapists, start \in SlotTimes, end \in SlotTimes}

\* a store in which the providers have created MaxTemplates templates and at
\* most one slot
InitGenerate ==
    /\ templates \in [TemplateIds -> TemplateRows]
    /\ nextTemplateId = MaxTemplates + 1
    /\ slots \in {<< >>} \cup OneSlotStores
    /\ nextSlotId = Cardinality(DOMAIN slots) + 1
    /\ bookings = << >>
    /\ nextBookingId = 1
    /\ last = NoRequest
    /\ pc = [p \in Procs |-> "idle"]
    /\ req = [p \in Procs |-> NoLocals]
    /\ now = 0

NextGenerate ==
    \/ \E p \in Procs, tpl \in TemplateIds, d1 \in Days, d2 \in Days, ex \in ExcludeInputs :
          GenerateSelect(p, tpl, d1, d2, ex)
    \/ \E p \in Procs : GenerateCreateSlot(p)
    \/ \E p \in Procs : Return(p)

\* concurrent generateSlotsFromTemplate runs, one SQL statement per step
SpecGenerate == InitGenerate /\ [][NextGenerate]_vars

\* ------------------- the cleanup after a client cancel (SpecSweepCancel)

\* an empty store at time 0
InitSweepCancel == Init

NextSweepCancel ==
    \/ NextSweep
    \/ \E c \in Callers, b \in BookingIds, r \in ReasonInputs :
          CancelSession(c[1], c[2], b, r)

\* SpecSweep with cancelSession: a booked slot can return to available before
\* the cleanup runs
SpecSweepCancel == InitSweepCancel /\ [][NextSweepCancel]_vars

\* ------------------- a store failure during the cleanup (SpecSweepFail)

\* Availability.cleanupExpiredSlots: the rowCount it returns, or the error of
\* the failed statement, which its catch block logs and throws again
CleanupExpiredSlotsOutcome(storeOk) == IF storeOk THEN "ok" ELSE "thrown"

\* cleanupExpiredAvailability with a catch block that throws the error again:
\* the promise the cron callback drops is rejected
CleanupExpiredAvailability_Rethrow(outcome) ==
    IF outcome = "thrown" THEN "unhandledRejection" ELSE outcome

\* cleanupExpiredAvailability: its try/catch around cleanupExpiredSlots logs
\* the error and returns
CleanupExpiredAvailability(outcome) ==
    IF outcome = "thrown" THEN "caught" ELSE outcome

\* cron.schedule('0 * * * *'): the clock reaches the next full hour and the
\* callback runs cleanupExpiredAvailability.  The DELETE either runs, with
\* the cascade to the bookings of the removed rows, or fails as a whole.
\* retry tells that the run before, one hour earlier, ended in a caught error
\* and no request was served in between.
ScheduledCleanup(storeOk) ==
    LET gone == IF storeOk THEN ExpiredSlots(slots, now') ELSE {} IN
    /\ last = NoRequest \/ last.op = "cleanupExpiredSlots"
    /\ now < MaxTicks * CronMinutes
    /\ now' = now + CronMinutes
    /\ slots' = DeleteRows(slots, gone)
    /\ bookings' = CascadeDeleteBookings(bookings, gone)
    /\ last' = [op |-> "cleanupExpiredSlots", id |-> NullId, role |-> "cron",
                caller |-> NullId,
                result |-> CleanupExpiredAvailability(CleanupExpiredSlotsOutcome(storeOk)),
                count |-> Cardinality(gone),
                retry |-> last.op = "cleanupExpiredSlots" /\ last.result = "caught"]
    /\ UNCHANGED <<nextSlotId, nextBookingId, pc, req, templates, nextTemplateId>>

\* an empty store at time 0
InitSweepFail == Init

NextSweepFail ==
    \/ \E t \in Therapists, start \in SlotTimes, end \in SlotTimes, st \in SlotStatuses :
          CreateSlotTimed(t, start, end, st)
    \/ \E u \in Users, s \in SlotIds : BookSlot(u, s, IndividualLen)
    \/ \E storeOk \in BOOLEAN : ScheduledCleanup(storeOk)
    \/ Respond

\* slots are created and booked while the hourly cleanup runs against a store
\* that can fail
SpecSweepFail == InitSweepFail /\ [][NextSweepFail]_vars

\* --------------------------- generateTimeSlotsForDay on its own (SpecDay)

\* session_duration: Joi.number().integer().min(15).max(180)
MinSessionDuration == 15
MaxSessionDuration == 180
\* break_between_sessions: Joi.number().integer().min(0).max(60)
MinBreak == 0
MaxBreak == 60
\* README, Availability Validation: Session Duration 15-240 minutes
DocumentedMaxSessionDuration == 240

\* 17:00 as a TIME value
FiveOClock == 17 * MinutesPerHour

\* the session_duration key of availabilityTemplateSchema accepts the value
ValidSessionDuration(d) == MinSessionDuration <= d /\ d <= MaxSessionDuration
\* the break_between_sessions key of availabilityTemplateSchema accepts the value
ValidBreak(b) == MinBreak <= b /\ b <= MaxBreak

\* session durations and breaks a request body can name: the ends of the
\* accepted and of the documented ranges, their neighbours and the defaults
DurationInputs ==
    {MinSessionDuration - 1, MinSessionDuration, DefaultSessionDuration,
     MaxSessionDuration, MaxSessionDuration + 1,
     DocumentedMaxSessionDuration, DocumentedMaxSessionDuration + 1}
BreakInputs == {MinBreak - 1, MinBreak, DefaultBreak, MaxBreak, MaxBreak + 1}

\* the durations and breaks of the templates validation lets through
SessionDurations == {d \in DurationInputs : ValidSessionDuration(d)}
Breaks == {b \in BreakInputs : ValidBreak(b)}

\* the window times of the templates generateTimeSlotsForDay is applied to
DayTimes == TemplateTimes \cup {FiveOClock}

\* the text of a TIME value as the request body writes it: 'HH:MM'
BodyTimeText(t) == <<t \div MinutesPerHour, t % MinutesPerHour>>

\* the texts a template's TIME value takes: as it was sent ('HH:MM') and as
\* the store returns it ('HH:MM:SS')
TimeTexts == {BodyTimeText(t) : t \in DayTimes} \cup {TimeText(t) : t \in DayTimes}

\* the arguments of one call of generateTimeSlotsForDay, before it returns
DayCalls ==
    [op : {"generateTimeSlotsForDay"}, id : {NullId}, role : {"none"},
     caller : {NullId}, result : {"none"}, date : Days,
     startTime : TimeTexts, endTime : TimeTexts,
     sessionDuration : SessionDurations, breakTime : Breaks, slots : {<< >>}]

\* a call of generateTimeSlotsForDay is about to run
InitDay ==
    /\ last \in DayCalls
    /\ slots = << >>
    /\ bookings = << >>
    /\ nextSlotId = 1
    /\ nextBookingId = 1
    /\ pc = [p \in Procs |-> "idle"]
    /\ req = [p \in Procs |-> NoLocals]
    /\ templates = << >>
    /\ nextTemplateId = 1
    /\ now = 0

\* the call returns its array of slots
GenerateDay ==
    /\ last.op = "generateTimeSlotsForDay"
    /\ last.result = "none"
    /\ last' = [last EXCEPT
                  !.result = "ok",
                  !.slots = generateTimeSlotsForDay(DateStr(last.date), last.startTime,
                                                    last.endTime, last.sessionDuration,
                                                    last.breakTime)]
    /\ UNCHANGED <<sched, db, pc, req>>

NextDay == GenerateDay

\* generateTimeSlotsForDay applied to the days, windows, durations and
\* breaks of valid templates
SpecDay == InitDay /\ [][NextDay]_vars

\* ------------- creating and updating templates (SpecTemplateEdit)

\* the keys of availabilityTemplateSchema that have a default
DefaultedFields == {"session_duration", "break_between_sessions", "is_active"}
TemplateFields == {"day_of_week", "start_time", "end_time"} \cup DefaultedFields

\* the request bodies of POST /templates and PUT /templates/:templateId: a
\* body is a function from the keys the caller sent to their values.
\* start_time and end_time are texts 'HH:MM' that match the schema's pattern,
\* by the minute they name.
OptionalKey(key, values) == {<< >>} \cup {key :> v : v \in values}

TemplateBodies ==
    {day @@ window @@ duration @@ break @@ active :
        day \in OptionalKey("day_of_week", TemplateDays),
        window \in [start_time : TemplateTimes, end_time : TemplateTimes],
        duration \in OptionalKey("session_duration", DurationInputs),
        break \in OptionalKey("break_between_sessions", BreakInputs),
        active \in OptionalKey("is_active", {FALSE})}

\* the key is missing from the body
Omitted(body, key) == key \notin DOMAIN body

\* schema.validate(req.body) of availabilityTemplateSchema reports no error:
\* day_of_week, start_time and end_time are required, every key is tested on
\* its own
TemplateBodyValid(body) ==
    /\ ~Omitted(body, "day_of_week")
    /\ body.day_of_week \in 0..(DaysPerWeek - 1)
    /\ ~Omitted(body, "start_time")
    /\ ~Omitted(body, "end_time")
    /\ ~Omitted(body, "session_duration") => ValidSessionDuration(body.session_duration)
    /\ ~Omitted(body, "break_between_sessions") => ValidBreak(body.break_between_sessions)

\* the value of schema.validate(req.body), which replaces req.body: the keys
\* left out take their defaults
ValidatedTemplate(body) ==
    body @@ [session_duration |-> DefaultSessionDuration,
             break_between_sessions |-> DefaultBreak,
             is_active |-> TRUE]

\* rows matched by  WHERE id = $n AND therapist_id = $m  of availability_templates
SelectOwnedTemplate(T, templateId, therapistId) ==
    {x \in DOMAIN T : x = templateId /\ T[x].therapist_id = therapistId}

\* UPDATE availability_templates SET <key = value for every key of the body
\* that is not undefined> WHERE id = $n AND therapist_id = $m
UpdateOwnedTemplate(T, templateId, therapistId, templateData) ==
    [x \in DOMAIN T |->
        IF x \in SelectOwnedTemplate(T, templateId, therapistId)
        THEN [f \in DOMAIN T[x] |->
                 IF f \in TemplateFields /\ ~Omitted(templateData, f)
                 THEN templateData[f] ELSE T[x][f]]
        ELSE T[x]]

\* the response to a template request, with the body as the caller sent it
TemplateResponse(op, id, t, result, body) ==
    [op |-> op, id |-> id, role |-> "psychiatrist", caller |-> t, result |-> result,
     body |-> body]

\* POST /templates : validate(availabilityTemplateSchema), then
\* AvailabilityController.createAvailabilityTemplate and Availability.createTemplate
CreateTemplateRequest(t, body) ==
    /\ last = NoRequest
    /\ IF ~TemplateBodyValid(body)
       THEN /\ last' = TemplateResponse("createTemplate", NullId, t, "ValidationError", body)
            /\ UNCHANGED <<db, sched, pc, req>>
       ELSE LET templateData == ValidatedTemplate(body) IN
            /\ nextTemplateId <= MaxTemplates
            /\ templates' = templates @@
                  (nextTemplateId :>
                      [therapist_id |-> t, day_of_week |-> templateData.day_of_week,
                       start_time |-> templateData.start_time,
                       end_time |-> templateData.end_time,
                       session_duration |-> templateData.session_duration,
                       break_between_sessions |-> templateData.break_between_sessions,
                       is_active |-> templateData.is_active])
            /\ nextTemplateId' = nextTemplateId + 1
            /\ last' = TemplateResponse("createTemplate", nextTemplateId, t, "ok", body)
            /\ UNCHANGED <<db, pc, req, now>>

\* PUT /templates/:templateId : validate(availabilityTemplateSchema), then
\* AvailabilityController.updateAvailabilityTemplate and Availability.updateTemplate
UpdateTemplateRequest(t, templateId, body) ==
    /\ last = NoRequest
    /\ IF ~TemplateBodyValid(body)
       THEN /\ last' = TemplateResponse("updateTemplate", templateId, t, "ValidationError", body)
            /\ UNCHANGED <<db, sched, pc, req>>
       ELSE /\ templates' = UpdateOwnedTemplate(templates, templateId, t,
                                                ValidatedTemplate(body))
            /\ last' = TemplateResponse("updateTemplate", templateId, t,
                          IF SelectOwnedTemplate(templates, templateId, t) = {}
                          THEN "NotFound" ELSE "ok", body)
            /\ UNCHANGED <<db, pc, req, nextTemplateId, now>>

\* an empty store
InitTemplateEdit == Init

\* a request is taken once the one before is answered
NextTemplateEdit ==
    \/ /\ last = NoRequest
       /\ \E t \in Therapists, body \in TemplateBodies : CreateTemplateRequest(t, body)
    \/ /\ last = NoRequest
       /\ \E t \in Therapists, tpl \in TemplateIds, body \in TemplateBodies :
             UpdateTemplateRequest(t, tpl, body)
    \/ Respond

\* one caller at a time creating and updating templates, request validation
\* included
SpecTemplateEdit == InitTemplateEdit /\ [][NextTemplateEdit]_vars

\* ----------------------------- deactivating a template (SpecDeactivate)

\* a statement that removes the template row: DELETE FROM availability_templates
\*  WHERE id = $1 AND therapist_id = $2
DeactivateOwnedTemplate_DeleteRow(T, templateId, therapistId) ==
    [x \in DOMAIN T \ SelectOwnedTemplate(T, templateId, therapistId) |-> T[x]]

\* UPDATE availability_templates SET is_active = false
\*  WHERE id = $1 AND therapist_id = $2
DeactivateOwnedTemplate(T, templateId, therapistId) ==
    [x \in DOMAIN T |->
        IF x \in SelectOwnedTemplate(T, templateId, therapistId)
        THEN [T[x] EXCEPT !.is_active = FALSE] ELSE T[x]]

\* DELETE /templates/:templateId : AvailabilityController.deleteAvailabilityTemplate
\* and Availability.deleteTemplate
DeleteTemplate(t, templateId) ==
    /\ last = NoRequest
    /\ templates' = DeactivateOwnedTemplate(templates, templateId, t)
    /\ last' = Response("deleteTemplate", templateId, "psychiatrist", t,
                        IF SelectOwnedTemplate(templates, templateId, t) = {}
                        THEN "NotFound" ELSE "ok")
    /\ UNCHANGED <<db, pc, req, nextTemplateId, now>>

\* an empty store
InitDeactivate == Init

NextDeactivate ==
    \/ \E t \in Therapists, day \in TemplateDays, start \in TemplateTimes,
          end \in TemplateTimes :
          CreateTemplate(t, day, start, end, DefaultSessionDuration, DefaultBreak, TRUE)
    \/ \E t \in Therapists, tpl \in TemplateIds : DeleteTemplate(t, tpl)
    \/ \E t \in Therapists, start \in SlotTimes, end \in SlotTimes :
          CreateSlotTimed(t, start, end, "available")
    \/ \E u \in Users, s \in SlotIds : BookSlot(u, s, IndividualLen)
    \/ Respond

\* one caller at a time creating active templates and slots, booking slots
\* and deactivating templates
SpecDeactivate == InitDeactivate /\ [][NextDeactivate]_vars

\* ------------------- requests on another provider's rows (SpecOwnership)

\* the template bodies that name the three required keys and nothing else
RequiredKeysBodies ==
    {body \in TemplateBodies : DOMAIN body = {"day_of_week", "start_time", "end_time"}}

\* the statuses a provider gives a slot in this specification
OwnershipStatuses == {"available", "blocked"}

\* an empty store
InitOwnership == Init

\* a request is taken once the one before is answered
NextOwnership ==
    \/ /\ last = NoRequest
       /\ \E t \in Therapists, body \in RequiredKeysBodies : CreateTemplateRequest(t, body)
    \/ /\ last = NoRequest
       /\ \E t \in Therapists, tpl \in TemplateIds, body \in RequiredKeysBodies :
             UpdateTemplateRequest(t, tpl, body)
    \/ \E t \in Therapists, tpl \in TemplateIds : DeleteTemplate(t, tpl)
    \/ \E t \in Therapists, start \in SlotTimes, end \in SlotTimes :
          CreateSlotTimed(t, start, end, "available")
    \/ \E t \in Therapists, s \in SlotIds, start \in SlotTimes, end \in SlotTimes,
          st \in OwnershipStatuses : UpdateSlotTimed(t, s, start, end, st)
    \/ \E t \in Therapists, s \in SlotIds : DeleteSlot(t, s)
    \/ Respond

\* providers create, update and delete templates and slots, their own and
\* each other's
SpecOwnership == InitOwnership /\ [][NextOwnership]_vars


(***************************************************************************)
(* SpecComplete: timed slots are created and booked while the clock        *)
(* advances and PUT /sessions/:sessionId edits the bookings.               *)
(***************************************************************************)

InitComplete == Init

NextComplete ==
    \/ \E t \in Therapists, start \in SlotTimes, end \in SlotTimes :
          CreateSlotTimed(t, start, end, "available")
    \/ \E u \in Users, s \in SlotIds : BookSlot(u, s, IndividualLen)
    \/ \E c \in Callers, b \in BookingIds, st \in BookingStatuses \cup {Undefined} :
          UpdateSession(c[1], c[2], b, st)
    \/ Tick
    \/ Respond

SpecComplete == InitComplete /\ [][NextComplete]_vars


(***************************************************************************)
(* SpecLog: the handlers that change templates and slots, each followed by *)
(* its write to therapist_activities, which the store may refuse.          *)
(***************************************************************************)

\* what became of the INSERT into therapist_activities
LogInsert(storeOk) == IF storeOk THEN "stored" ELSE "failed"

\* logActivity that lets the error of its INSERT escape
LogActivity_Rethrow(storeOk) ==
    CASE LogInsert(storeOk) = "stored" -> "returned"
      [] LogInsert(storeOk) = "failed" -> "thrown"

\* logActivity: try { INSERT } catch { console.error }, no rethrow
LogActivity(storeOk) ==
    CASE LogInsert(storeOk) = "stored" -> "returned"
      [] LogInsert(storeOk) = "failed" -> "returned"

\* the rest of a handler from  await logActivity(...)  on: the success
\* response, or the 500 of its catch block when the await throws
AfterLogActivity(response, storeOk) ==
    [op |-> response.op, id |-> response.id, role |-> response.role,
     caller |-> response.caller,
     result |-> IF LogActivity(storeOk) = "thrown" THEN "error" ELSE response.result,
     log |-> LogInsert(storeOk)]

\* a response sent before the handler reaches logActivity
BeforeLogActivity(response) ==
    [op |-> response.op, id |-> response.id, role |-> response.role,
     caller |-> response.caller, result |-> response.result, log |-> "none"]

\* POST /slots
CreateSlotLogged(t, start, end, st, storeOk) ==
    /\ last = NoRequest
    /\ nextSlotId <= MaxSlots
    /\ slots' = InsertSlot(slots, nextSlotId, t, start, end, st)
    /\ nextSlotId' = nextSlotId + 1
    /\ last' = AfterLogActivity(Response("createSlot", nextSlotId, "psychiatrist", t, "ok"),
                                storeOk)
    /\ UNCHANGED <<sched, bookings, nextBookingId, pc, req>>

\* DELETE /slots/:slotId
DeleteSlotLogged(t, s, storeOk) ==
    LET gone == DeletableSlot(slots, s, t) IN
    /\ last = NoRequest
    /\ slots' = DeleteRows(slots, gone)
    /\ bookings' = CascadeDeleteBookings(bookings, gone)
    /\ last' = IF gone = {}
               THEN BeforeLogActivity(Response("deleteSlot", s, "psychiatrist", t, "NotFound"))
               ELSE AfterLogActivity(Response("deleteSlot", s, "psychiatrist", t, "ok"),
                                     storeOk)
    /\ UNCHANGED <<sched, nextSlotId, nextBookingId, pc, req>>

\* POST /templates with a validated body
CreateTemplateLogged(t, day, start, end, storeOk) ==
    /\ last = NoRequest
    /\ nextTemplateId <= MaxTemplates
    /\ templates' = templates @@
          (nextTemplateId :> [therapist_id |-> t, day_of_week |-> day,
                              start_time |-> start, end_time |-> end,
                              session_duration |-> DefaultSessionDuration,
                              break_between_sessions |-> DefaultBreak,
                              is_active |-> TRUE])
    /\ nextTemplateId' = nextTemplateId + 1
    /\ last' = AfterLogActivity(
                  Response("createTemplate", nextTemplateId, "psychiatrist", t, "ok"),
                  storeOk)
    /\ UNCHANGED <<db, pc, req, now>>

\* DELETE /templates/:templateId
DeleteTemplateLogged(t, templateId, storeOk) ==
    /\ last = NoRequest
    /\ templates' = DeactivateOwnedTemplate(templates, templateId, t)
    /\ last' = IF SelectOwnedTemplate(templates, templateId, t) = {}
               THEN BeforeLogActivity(
                       Response("deleteTemplate", templateId, "psychiatrist", t, "NotFound"))
               ELSE AfterLogActivity(
                       Response("deleteTemplate", templateId, "psychiatrist", t, "ok"),
                       storeOk)
    /\ UNCHANGED <<db, pc, req, nextTemplateId, now>>

InitLog == Init

NextLog ==
    \/ \E t \in Therapists, start \in SlotTimes, end \in SlotTimes, storeOk \in BOOLEAN :
          CreateSlotLogged(t, start, end, "available", storeOk)
    \/ \E t \in Therapists, s \in SlotIds, storeOk \in BOOLEAN :
          DeleteSlotLogged(t, s, storeOk)
    \/ \E t \in Therapists, day \in TemplateDays, start \in TemplateTimes,
          end \in TemplateTimes, storeOk \in BOOLEAN :
          CreateTemplateLogged(t, day, start, end, storeOk)
    \/ \E t \in Therapists, tpl \in TemplateIds, storeOk \in BOOLEAN :
          DeleteTemplateLogged(t, tpl, storeOk)
    \/ Respond

SpecLog == InitLog /\ [][NextLog]_vars


(***************************************************************************)
(* SpecBookSweep: the statements of concurrent bookSlot and deleteSlot     *)
(* requests interleave with the hourly cleanup while the clock advances.   *)
(***************************************************************************)

\* a store in which the providers have created MaxSlots available slots
\* that end at the hours of day 0
InitBookSweep ==
    /\ slots \in [SlotIds -> [therapist_id : Therapists, status : {"available"},
                              start_datetime : {0}, end_datetime : SlotTimes]]
    /\ bookings = << >>
    /\ nextSlotId = MaxSlots + 1
    /\ nextBookingId = 1
    /\ last = NoRequest
    /\ pc = [p \in Procs |-> "idle"]
    /\ req = [p \in Procs |-> NoLocals]
    /\ templates = << >>
    /\ nextTemplateId = 1
    /\ now = 0

NextBookSweep ==
    \/ \E p \in Procs, u \in Users, s \in SlotIds : BookSelect(p, u, s, IndividualLen)
    \/ \E p \in Procs : BookUpdate(p)
    \/ \E p \in Procs : BookInsert(p)
    \/ \E p \in Procs, t \in Therapists, s \in SlotIds : DeleteSlotStmt(p, t, s)
    \/ \E p \in Procs : Return(p)
    \/ Tick
    \/ CleanupExpiredSlots
    \/ Respond

SpecBookSweep == InitBookSweep /\ [][NextBookSweep]_vars


(***************************************************************************)
(* SpecDayLoopFair: the while loop of generateTimeSlotsForDay, one         *)
(* iteration per step, on the windows, durations and breaks of stored      *)
(* templates.                                                              *)
(***************************************************************************)

\* the most slots one call returns: the longest window cut into sessions of
\* the shortest duration with no break
MaxLoopSlots == 32

\* slotEnd with the session duration left out
SlotEnd_ZeroLength(currentTime, sessionDuration) == currentTime

\* new Date(currentTime.getTime() + (sessionDuration * 60000))
SlotEnd(currentTime, sessionDuration) == currentTime + sessionDuration

\* new Date(slotEnd.getTime() + (breakTime * 60000))
NextCursor(slotEnd, breakTime) == slotEnd + breakTime

\* the locals of a call that has parsed its arguments and reached the loop
LoopEntry(call) ==
    [op |-> call.op, id |-> call.id, role |-> call.role, caller |-> call.caller,
     result |-> call.result,
     sessionDuration |-> call.sessionDuration, breakTime |-> call.breakTime,
     currentTime |-> ParseDate(DateTimeString(DateStr(call.date), call.startTime)),
     endDateTime |-> ParseDate(DateTimeString(DateStr(call.date), call.endTime)),
     slots |-> call.slots]

InitDayLoop ==
    /\ last \in {LoopEntry(call) : call \in DayCalls}
    /\ slots = << >>
    /\ bookings = << >>
    /\ nextSlotId = 1
    /\ nextBookingId = 1
    /\ pc = [p \in Procs |-> "idle"]
    /\ req = [p \in Procs |-> NoLocals]
    /\ templates = << >>
    /\ nextTemplateId = 1
    /\ now = 0

\* the call is in its loop
InLoop == last.op = "generateTimeSlotsForDay" /\ last.result = "none"

\* an iteration whose slot fits: the slot is pushed and the cursor moves
LoopPush ==
    /\ InLoop
    /\ DateLess(last.currentTime, last.endDateTime)
    /\ DateLeq(SlotEnd(last.currentTime, last.sessionDuration), last.endDateTime)
    /\ Len(last.slots) < MaxLoopSlots
    /\ last' = [last EXCEPT
                  !.slots = Append(@, [start_datetime |-> last.currentTime,
                                       end_datetime |-> SlotEnd(last.currentTime,
                                                                last.sessionDuration)]),
                  !.currentTime = NextCursor(SlotEnd(last.currentTime,
                                                     last.sessionDuration),
                                             last.breakTime)]
    /\ UNCHANGED <<sched, db, pc, req>>

\* an iteration whose slot does not fit: break, and the call returns
LoopBreak ==
    /\ InLoop
    /\ DateLess(last.currentTime, last.endDateTime)
    /\ ~DateLeq(SlotEnd(last.currentTime, last.sessionDuration), last.endDateTime)
    /\ last' = [last EXCEPT !.result = "ok"]
    /\ UNCHANGED <<sched, db, pc, req>>

\* the loop condition is false: the call returns
LoopExit ==
    /\ InLoop
    /\ ~DateLess(last.currentTime, last.endDateTime)
    /\ last' = [last EXCEPT !.result = "ok"]
    /\ UNCHANGED <<sched, db, pc, req>>

NextDayLoop ==
    \/ LoopPush
    \/ LoopBreak
    \/ LoopExit

\* a call that has started keeps running: its next iteration is taken
SpecDayLoopFair == InitDayLoop /\ [][NextDayLoop]_vars /\ WF_vars(NextDayLoop)


(***************************************************************************)
(* SpecInactive: active templates are created, deactivated, updated (which *)
(* activates them again) and used for generation.                          *)
(***************************************************************************)

InitInactive == Init

NextInactive ==
    \/ \E t \in Therapists, day \in TemplateDays, start \in TemplateTimes,
          end \in TemplateTimes :
          CreateTemplate(t, day, start, end, DefaultSessionDuration, DefaultBreak, TRUE)
    \/ \E t \in Therapists, tpl \in TemplateIds : DeleteTemplate(t, tpl)
    \/ /\ last = NoRequest
       /\ \E t \in Therapists, tpl \in TemplateIds, body \in RequiredKeysBodies :
             UpdateTemplateRequest(t, tpl, body)
    \/ \E t \in Therapists, tpl \in TemplateIds, d1 \in Days, d2 \in Days :
          GenerateSlots(t, tpl, d1, d2, << >>)
    \/ Respond

SpecInactive == InitInactive /\ [][NextInactive]_vars

\* ============================================================== properties

\* a step of Spec that serves the request op on target id
Serves(op, id) == last = NoRequest /\ last'.op = op /\ last'.id = id

\* handler p has responded to a bookSlot on slot s
BookResponded(p, s) == pc[p] = "done" /\ req[p].op = "bookSlot" /\ req[p].id = s

\* two intervals share a moment
Overlap(a, b) ==
    a.start_datetime < b.end_datetime /\ b.start_datetime < a.end_datetime

\* C1 (SpecRace): when concurrent bookSlot calls on the same available slot
\* have responded and one of them returned success, every other one returned
\* SlotUnavailable, the slot is booked and exactly one non-cancelled booking
\* references it.
C1_OneConcurrentBookWins ==
    \A s \in SlotIds : \A p, q \in Procs :
        (p # q /\ BookResponded(p, s) /\ BookResponded(q, s) /\ req[p].result = "ok")
            => /\ req[q].result = "SlotUnavailable"
               /\ slots[s].status = "booked"
               /\ Cardinality(ActiveBookings(bookings, s)) = 1

\* C2 (Spec): in every reachable state each slot is referenced by at most one
\* booking whose status is not cancelled.
C2_AtMostOneActiveBooking ==
    \A s \in SlotIds : Cardinality(ActiveBookings(bookings, s)) <= 1

\* C3 (Spec): bookSlot is all-or-nothing: a call that does not return success
\* leaves the slots and the bookings as they were, and a call that sets a slot
\* to booked has created a scheduled booking for it.
C3_BookAllOrNothing ==
    [][\A s \in SlotIds :
          Serves("bookSlot", s) =>
             /\ last'.result # "ok" => (slots' = slots /\ bookings' = bookings)
             /\ (s \in DOMAIN slots' /\ slots'[s] # slots[s] /\ slots'[s].status = "booked")
                   => \E b \in DOMAIN bookings' \ DOMAIN bookings :
                         /\ bookings'[b].availability_slot_id = s
                         /\ bookings'[b].status = "scheduled"]_vars

\* C4 (Spec): with a single caller, bookSlot on a slot that does not exist or
\* whose status is not available returns SlotUnavailable and changes no slot
\* and no booking; a successful bookSlot leaves the slot booked, so that
\* booking it again fails.
C4_BookUnavailableFails ==
    [][\A s \in SlotIds :
          Serves("bookSlot", s) =>
             /\ (s \notin DOMAIN slots \/ slots[s].status # "available")
                   => /\ last'.result = "SlotUnavailable"
                      /\ slots' = slots
                      /\ bookings' = bookings
             /\ last'.result = "ok" => slots'[s].status = "booked"]_vars

\* a second bookSlot on a slot that an earlier bookSlot booked was refused
C4_Witness ==
    \E s \in DOMAIN slots :
        /\ last.op = "bookSlot" /\ last.id = s /\ last.result = "SlotUnavailable"
        /\ slots[s].status = "booked"
        /\ \E b \in ActiveBookings(bookings, s) :
              bookings[b].therapist_id = slots[s].therapist_id

\* C5 (SpecConc): the UPDATE of bookSlot never changes the status of a slot
\* that is no longer available when the UPDATE runs.
C5_BookWriteIsConditional ==
    [][\A p \in Procs :
          (pc[p] = "book_update" /\ pc'[p] = "book_insert"
              /\ slots[req[p].id].status # "available")
            => slots'[req[p].id].status = slots[req[p].id].status]_vars

\* C6 (Spec): when the client of a scheduled booking on a booked slot calls
\* cancelSession, the call succeeds, the slot is available afterwards, the
\* number of non-cancelled bookings of the slot has dropped by exactly one,
\* and a bookSlot of the slot then succeeds.
C6_ClientCancelReleasesSlot ==
    [][\A b \in BookingIds :
          (/\ Serves("cancelSession", b)
           /\ b \in DOMAIN bookings
           /\ bookings[b].status = "scheduled"
           /\ last'.role = "user"
           /\ last'.caller = bookings[b].user_id
           /\ bookings[b].availability_slot_id \in DOMAIN slots
           /\ slots[bookings[b].availability_slot_id].status = "booked")
            => LET s == bookings[b].availability_slot_id IN
               /\ last'.result = "ok"
               /\ slots'[s].status = "available"
               /\ Cardinality(ActiveBookings(bookings', s))
                     = Cardinality(ActiveBookings(bookings, s)) - 1
               /\ BookSlotResult(slots', s, IndividualLen) = "ok"]_vars

\* C7 (Spec): cancelSession on a booking that is already cancelled, or on an
\* id with no booking, does not succeed and changes no booking and no slot.
C7_CancelInactiveChangesNothing ==
    [][\A b \in BookingIds :
          (/\ Serves("cancelSession", b)
           /\ (b \notin DOMAIN bookings \/ bookings[b].status = "cancelled"))
            => /\ last'.result # "ok"
               /\ slots' = slots
               /\ bookings' = bookings]_vars

\* C8 (Spec): cancelSlot by a provider who does not own the slot returns
\* NotFound and changes neither the slot nor any booking.
C8_ForeignCancelChangesNothing ==
    [][\A s \in SlotIds :
          (/\ Serves("cancelSlot", s)
           /\ s \in DOMAIN slots
           /\ slots[s].therapist_id # last'.caller)
            => /\ last'.result = "NotFound"
               /\ slots' = slots
               /\ bookings' = bookings]_vars

\* C9 (Spec): cancelSlot by the owning provider on a booked slot sets the
\* slot and its active bookings to cancelled and changes no other slot and no
\* booking of another slot.
C9_OwnerCancelFrame ==
    [][\A s \in SlotIds :
          (/\ Serves("cancelSlot", s)
           /\ s \in DOMAIN slots
           /\ slots[s].therapist_id = last'.caller
           /\ slots[s].status = "booked")
            => /\ last'.result = "ok"
               /\ DOMAIN slots' = DOMAIN slots
               /\ DOMAIN bookings' = DOMAIN bookings
               /\ slots'[s] = [slots[s] EXCEPT !.status = "cancelled"]
               /\ \A x \in DOMAIN slots \ {s} : slots'[x] = slots[x]
               /\ \A b \in ActiveBookings(bookings, s) : bookings'[b].status = "cancelled"
               /\ \A b \in DOMAIN bookings :
                     bookings[b].availability_slot_id # s => bookings'[b] = bookings[b]]_vars

\* the owner has cancelled a booked slot while another slot holds an active booking
C9_Witness ==
    /\ last.op = "cancelSlot" /\ last.result = "ok"
    /\ last.id \in DOMAIN slots
    /\ slots[last.id].status = "cancelled"
    /\ \E b \in DOMAIN bookings :
          bookings[b].availability_slot_id = last.id /\ bookings[b].status = "cancelled"
    /\ \E x \in DOMAIN slots \ {last.id} :
          slots[x].status = "booked" /\ ActiveBookings(bookings, x) # {}

\* C10 (Spec): once the provider has cancelled a slot and its booking, a
\* cancelSession of that booking leaves the slot cancelled.
C10_CancelledSlotStaysCancelled ==
    [][\A b \in BookingIds :
          (/\ Serves("cancelSession", b)
           /\ b \in DOMAIN bookings
           /\ bookings[b].status = "cancelled"
           /\ bookings[b].availability_slot_id \in DOMAIN slots
           /\ slots[bookings[b].availability_slot_id].status = "cancelled")
            => slots'[bookings[b].availability_slot_id].status = "cancelled"]_vars

\* C11 (Spec): in every reachable state every booking whose status is not
\* cancelled references a slot whose status is booked.
C11_ActiveBookingOnBookedSlot ==
    \A b \in DOMAIN bookings :
        bookings[b].status # "cancelled"
            => /\ bookings[b].availability_slot_id \in DOMAIN slots
               /\ slots[bookings[b].availability_slot_id].status = "booked"

\* C12 (Spec): every change of a slot's status follows an edge of the slot
\* state machine (available->booked, booked->completed, booked->cancelled,
\* booked->available, available->blocked, blocked->available), and a slot is
\* removed only while it is available.
C12_SlotStateMachine ==
    [][LET edges == {<<"available", "booked">>, <<"booked", "completed">>,
                     <<"booked", "cancelled">>, <<"booked", "available">>,
                     <<"available", "blocked">>, <<"blocked", "available">>} IN
       \A s \in DOMAIN slots :
          IF s \in DOMAIN slots'
          THEN \/ slots'[s].status = slots[s].status
               \/ <<slots[s].status, slots'[s].status>> \in edges
          ELSE slots[s].status = "available"]_vars

\* C13 (SpecSlots): updateSlot on a slot whose status is not available is
\* rejected and changes no field of that slot, neither its status nor its
\* start and end times.
C13_UpdateOnlyWhileAvailable ==
    [][\A s \in SlotIds :
          (/\ Serves("updateSlot", s)
           /\ s \in DOMAIN slots
           /\ slots[s].status # "available")
            => /\ last'.result # "ok"
               /\ slots'[s] = slots[s]]_vars

\* C15 (SpecSlots): in every reachable state every slot has start < end, and
\* no two slots of the same provider whose status is available or booked
\* overlap in time.
C15_NoOverlapStartBeforeEnd ==
    /\ \A s \in DOMAIN slots : slots[s].start_datetime < slots[s].end_datetime
    /\ \A x, y \in DOMAIN slots :
          (/\ x # y
           /\ slots[x].therapist_id = slots[y].therapist_id
           /\ slots[x].status \in {"available", "booked"}
           /\ slots[y].status \in {"available", "booked"})
            => ~Overlap(slots[x], slots[y])

\* C16 (SpecSlots): createSlot for an interval that overlaps an available or
\* booked slot of the same provider is rejected with OverlapError and leaves
\* the stored slots unchanged.
C16_CreateOverlapRejected ==
    [][(/\ last = NoRequest
        /\ last'.op = "createSlot"
        /\ \E x \in DOMAIN slots :
              /\ slots[x].therapist_id = last'.caller
              /\ slots[x].status \in {"available", "booked"}
              /\ Overlap(slots[x], last'))
         => /\ last'.result = "OverlapError"
            /\ slots' = slots]_vars

C14_DeleteOnlyAvailable ==
    [][\A p \in Procs, s \in SlotIds :
          (/\ pc[p] = "idle" /\ pc'[p] = "done"
           /\ req'[p].op = "deleteSlot" /\ req'[p].id = s
           /\ s \in DOMAIN slots)
            => /\ s \notin DOMAIN slots' => slots[s].status = "available"
               /\ slots[s].status # "available"
                     => /\ req'[p].result = "NotFound"
                        /\ slots' = slots
                        /\ bookings' = bookings]_vars

\* the owner's deleteSlot was refused on a slot that a concurrent bookSlot had
\* set to booked and whose booking that bookSlot has yet to insert
C14_Witness ==
    \E p, q \in Procs, s \in DOMAIN slots :
        /\ pc[p] = "done" /\ req[p].op = "deleteSlot" /\ req[p].id = s
        /\ req[p].caller = slots[s].therapist_id
        /\ req[p].result = "NotFound"
        /\ slots[s].status = "booked"
        /\ pc[q] = "book_insert" /\ req[q].id = s
        /\ req[q].therapist_id = slots[s].therapist_id

\* C19 (SpecSweep): a cleanup run removes exactly the slots whose status is
\* available and whose end time is earlier than now minus the grace period:
\* every such slot is removed, and every other slot (booked, cancelled or
\* blocked whatever its age, or available and not yet that old) stays as it
\* was.
C19_SweepExactlyExpiredAvailable ==
    [][last'.op = "cleanupExpiredSlots"
         => /\ \A s \in DOMAIN slots :
                  IF slots[s].status = "available"
                        /\ slots[s].end_datetime < now - GraceMinutes
                  THEN s \notin DOMAIN slots'
                  ELSE s \in DOMAIN slots' /\ slots'[s] = slots[s]
            /\ DOMAIN slots' \subseteq DOMAIN slots]_vars

\* a cleanup run has removed a slot and left a slot of the same age that is
\* not available
C19_Witness ==
    /\ last.op = "cleanupExpiredSlots"
    /\ last.count > 0
    /\ \E s \in DOMAIN slots :
          /\ slots[s].status # "available"
          /\ slots[s].end_datetime < now - GraceMinutes

\* C20 (SpecSweep): the count a cleanup run reports is the number of slots it
\* removed, and a run that directly follows another run (same clock, nothing
\* in between) removes nothing, reports 0 and leaves the store unchanged.
C20_SweepIdempotent ==
    [][last'.op = "cleanupExpiredSlots"
         => /\ last'.count = Cardinality(DOMAIN slots \ DOMAIN slots')
            /\ (last.op = "cleanupExpiredSlots" /\ now' = now)
                  => /\ last'.count = 0
                     /\ db' = db]_vars

\* a cleanup run has directly followed the run that removed a slot
C20_Witness ==
    /\ last.op = "cleanupExpiredSlots"
    /\ last.repeat
    /\ last.count = 0
    /\ Cardinality(DOMAIN slots) < nextSlotId - 1

C21_SweepSparesBookedSlots ==
    [][last'.op = "cleanupExpiredSlots"
         => /\ \A s \in DOMAIN slots \ DOMAIN slots' :
                  \A b \in DOMAIN bookings : bookings[b].availability_slot_id # s
            /\ bookings' = bookings]_vars

\* C22 (SpecSweepFail): a scheduled cleanup run whose store statement fails
\* ends in the caught error and never in an unhandled rejection, and leaves
\* the store unchanged; the run at the next tick, when its statement
\* succeeds, removes every slot that was eligible at the failed run.
C22_SweepFailureCaughtAndRetried ==
    [][last'.op = "cleanupExpiredSlots"
         => /\ last'.result \in {"ok", "caught"}
            /\ last'.result = "caught" => db' = db
            /\ (last.op = "cleanupExpiredSlots" /\ last.result = "caught"
                   /\ last'.result = "ok")
                  => /\ \A s \in ExpiredSlots(slots, now) : s \notin DOMAIN slots'
                     /\ last'.count >= Cardinality(ExpiredSlots(slots, now))]_vars

\* the run after a failed run has removed a slot
C22_Witness ==
    /\ last.op = "cleanupExpiredSlots"
    /\ last.result = "ok"
    /\ last.retry
    /\ last.count > 0

\* the minute a window time text names on the date of a call
WindowTime(date, timeText) ==
    date * MinutesPerDay + timeText[1] * MinutesPerHour + timeText[2]

\* a call of generateTimeSlotsForDay has returned
DayReturned == last.op = "generateTimeSlotsForDay" /\ last.result = "ok"

\* C23 (SpecDay): the slots generateTimeSlotsForDay returns for a date are
\* pairwise non-overlapping and each lies within the template's window of that
\* day: it starts at or after the start time and ends at or before the end
\* time; a slot that would end later is not produced, not even cut short.
C23_DaySlotsDisjointWithinWindow ==
    DayReturned
      => /\ \A i \in 1..Len(last.slots) :
               /\ WindowTime(last.date, last.startTime) <= last.slots[i].start_datetime
               /\ last.slots[i].start_datetime < last.slots[i].end_datetime
               /\ last.slots[i].end_datetime <= WindowTime(last.date, last.endTime)
         /\ \A i, j \in 1..Len(last.slots) :
               i # j => ~Overlap(last.slots[i], last.slots[j])

\* a call has returned several slots and has dropped the slot that would
\* have started within the window and ended after it
C23_Witness ==
    /\ DayReturned
    /\ Len(last.slots) >= 2
    /\ last.slots[Len(last.slots)].end_datetime + last.breakTime
          < WindowTime(last.date, last.endTime)

\* C24 (SpecDay): for every template validation lets through, session
\* duration plus break is positive, and every slot generateTimeSlotsForDay
\* returns lasts exactly the session duration.
C24_SlotLengthIsSessionDuration ==
    /\ \A d \in SessionDurations, b \in Breaks : d + b > 0
    /\ (last.op = "generateTimeSlotsForDay")
          => /\ last.sessionDuration + last.breakTime > 0
             /\ \A i \in 1..Len(last.slots) :
                   last.slots[i].end_datetime - last.slots[i].start_datetime
                      = last.sessionDuration

\* a call without a break between sessions has returned slots, and a session
\* started at the end of the last one would have ended after the window
C24_Witness ==
    /\ DayReturned
    /\ last.breakTime = 0
    /\ Len(last.slots) >= 1
    /\ last.slots[Len(last.slots)].end_datetime < WindowTime(last.date, last.endTime)

\* the number n of C25: the slots starting at startTime + k*(d+b) that end at
\* or before endTime
FittingSlots(startTime, endTime, d, b) ==
    Cardinality({k \in 0..((MinutesPerDay \div (d + b)) + 1) :
                    startTime + k * (d + b) + d <= endTime})

\* C25 (SpecDay): the slots generated for a template on a matching date are
\* exactly those starting at startTime + k*(d+b) for k = 0..n-1, each d
\* minutes long, with n the largest number such that
\* startTime + (n-1)*(d+b) + d <= endTime (none if d exceeds the window); for
\* 09:00-17:00, d = 60, b = 15 these are the six slots starting 09:00, 10:15,
\* 11:30, 12:45, 14:00 and 15:15.
C25_DaySlotsAreTheArithmeticSequence ==
    DayReturned
      => LET startTime == WindowTime(last.date, last.startTime)
             endTime == WindowTime(last.date, last.endTime)
             d == last.sessionDuration
             b == last.breakTime
             n == FittingSlots(startTime, endTime, d, b) IN
         /\ Len(last.slots) = n
         /\ \A k \in 0..(n - 1) :
               /\ last.slots[k + 1].start_datetime = startTime + k * (d + b)
               /\ last.slots[k + 1].end_datetime = startTime + k * (d + b) + d

\* the date of a timestamp
DateOf(minutes) == minutes \div MinutesPerDay

\* C26 (SpecTemplates): a generation run creates slots on exactly the dates d
\* with startDate <= d <= endDate whose weekday is the template's day_of_week
\* and that exclude_dates does not list (given that the template's window
\* holds a session): none on an excluded date, on a date outside the range or
\* on another weekday, and every qualifying date gets its slots.
C26_GeneratesOnExactlyTheQualifyingDates ==
    [][(last'.op = "generateSlots" /\ last'.result = "ok")
         => LET template == templates[last'.id]
                created == DOMAIN slots' \ DOMAIN slots
                Qualifies(d) ==
                    /\ last'.start_date <= d /\ d <= last'.end_date
                    /\ GetDay(d) = template.day_of_week
                    /\ \A i \in 1..Len(last'.exclude_dates) :
                          last'.exclude_dates[i].date # d
                    /\ template.start_time + template.session_duration
                          <= template.end_time IN
            /\ \A d \in Days :
                  Qualifies(d) <=> \E s \in created : DateOf(slots'[s].start_datetime) = d
            /\ \A s \in created : DateOf(slots'[s].start_datetime) \in Days]_vars

\* C27 (SpecTemplateEdit): an update of a template changes only the fields
\* the caller supplied: session_duration, break_between_sessions and is_active
\* keep their values when the request body leaves them out.
C27_UpdateKeepsOmittedFields ==
    [][(last'.op = "updateTemplate" /\ last'.result = "ok")
         => \A f \in DefaultedFields :
               Omitted(last'.body, f)
                  => templates'[last'.id][f] = templates[last'.id][f]]_vars

\* the session duration a template request asks for: the one of its body or
\* the default
RequestedDuration(body) ==
    IF Omitted(body, "session_duration") THEN DefaultSessionDuration
    ELSE body.session_duration

\* C28 (SpecTemplateEdit): a create or update request whose start time is
\* not strictly before its end time, or whose window is shorter than one
\* session duration, is rejected with ValidationError and persists nothing;
\* every stored template has start time < end time.
C28_TemplateWindowValidated ==
    [][/\ (/\ last'.op \in {"createTemplate", "updateTemplate"}
           /\ \/ last'.body.start_time >= last'.body.end_time
              \/ last'.body.end_time - last'.body.start_time
                    < RequestedDuration(last'.body))
          => (last'.result = "ValidationError" /\ templates' = templates)
       /\ \A x \in DOMAIN templates' :
             templates'[x].start_time < templates'[x].end_time]_vars

\* C29 (SpecTemplateEdit): template validation accepts exactly the session
\* durations from 15 to 240 minutes and the breaks from 0 to 60 minutes: a
\* request that names the template's day is rejected with ValidationError if
\* and only if one of the two values lies outside its range.
C29_DocumentedDurationAndBreakRanges ==
    [][(/\ last'.op \in {"createTemplate", "updateTemplate"}
        /\ ~Omitted(last'.body, "day_of_week"))
         => (last'.result # "ValidationError"
               <=> /\ Omitted(last'.body, "session_duration")
                      \/ (/\ MinSessionDuration <= last'.body.session_duration
                          /\ last'.body.session_duration <= DocumentedMaxSessionDuration)
                   /\ Omitted(last'.body, "break_between_sessions")
                      \/ (/\ MinBreak <= last'.body.break_between_sessions
                          /\ last'.body.break_between_sessions <= MaxBreak))]_vars

C31_ForeignRequestsAreNotFound ==
    [][/\ (/\ last'.op \in {"updateTemplate", "deleteTemplate"}
           /\ last'.id \in DOMAIN templates
           /\ templates[last'.id].therapist_id # last'.caller)
          => (last'.result = "NotFound" /\ templates' = templates /\ db' = db)
       /\ (/\ last'.op \in {"updateSlot", "deleteSlot"}
           /\ last'.id \in DOMAIN slots
           /\ slots[last'.id].therapist_id # last'.caller)
          => (last'.result = "NotFound" /\ templates' = templates /\ db' = db)]_vars

\* a provider has asked to delete an available slot of another provider,
\* while a template of the other provider is stored
C31_Witness ==
    /\ last.op = "deleteSlot"
    /\ last.result = "NotFound"
    /\ last.id \in DOMAIN slots
    /\ slots[last.id].status = "available"
    /\ slots[last.id].therapist_id # last.caller
    /\ \E x \in DOMAIN templates : templates[x].therapist_id # last.caller

\* C32 (SpecTemplates): slot generation requested by a provider for a
\* template that belongs to another provider fails (it is not answered with
\* success) and creates no slot.
C32_ForeignGenerationFails ==
    [][(/\ last'.op = "generateSlots"
        /\ last'.id \in DOMAIN templates
        /\ templates[last'.id].therapist_id # last'.caller)
         => (last'.result # "ok" /\ slots' = slots)]_vars

\* C33 (Spec): a booking's status changes only from scheduled to cancelled
\* or from scheduled to completed: no operation sets it to another value, and
\* a cancelled or completed booking keeps its status for good.
C33_BookingStateMachine ==
    [][\A b \in DOMAIN bookings \cap DOMAIN bookings' :
          bookings'[b].status # bookings[b].status
             => /\ bookings[b].status = "scheduled"
                /\ bookings'[b].status \in {"cancelled", "completed"}]_vars


\* C34 (SpecComplete): a booking becomes completed only if it was scheduled
\* and the end time of its slot has already passed.
C34_CompletedOnlyAfterEnd ==
    [][\A b \in DOMAIN bookings \cap DOMAIN bookings' :
          (bookings'[b].status = "completed" /\ bookings[b].status # "completed")
             => /\ bookings[b].status = "scheduled"
                /\ bookings[b].availability_slot_id \in DOMAIN slots
                /\ slots[bookings[b].availability_slot_id].end_datetime <= now]_vars


\* the mutation a logged request asked for is in the store after the step
MutationPersisted ==
    \/ last'.op = "createSlot" /\ last'.id \in DOMAIN slots' \ DOMAIN slots
    \/ last'.op = "deleteSlot" /\ last'.id \in DOMAIN slots \ DOMAIN slots'
    \/ last'.op = "createTemplate" /\ last'.id \in DOMAIN templates' \ DOMAIN templates
    \/ /\ last'.op = "deleteTemplate"
       /\ last'.id \in DOMAIN templates'
       /\ ~templates'[last'.id].is_active

\* C35 (SpecLog): when the write to therapist_activities fails after a
\* template or slot mutation, the mutation stays in the store and the
\* operation still reports success.
C35_LogFailureNeverFailsOperation ==
    [][(last' # last /\ last' # NoRequest /\ last'.log = "failed")
          => (last'.result = "ok" /\ MutationPersisted)]_vars

C35_Witness ==
    /\ last # NoRequest
    /\ last.op = "deleteSlot"
    /\ last.log = "failed"
    /\ last.result = "ok"
    /\ last.id \notin DOMAIN slots
    /\ \E x \in DOMAIN templates : ~templates[x].is_active


\* C36 (Spec): every slot whose status is booked is referenced by exactly
\* one booking that is not cancelled.
C36_BookedSlotHasOneActiveBooking ==
    \A s \in DOMAIN slots :
        slots[s].status = "booked"
           => Cardinality({b \in DOMAIN bookings :
                              /\ bookings[b].availability_slot_id = s
                              /\ bookings[b].status # "cancelled"}) = 1


\* C37 (SpecBookSweep): under every interleaving of bookSlot with the
\* cleanup and deleteSlot, a bookSlot that has answered success finds its
\* slot in the store with status booked (so a slot the cleanup or deleteSlot
\* removed is never answered as booked), and every booking references a slot
\* that exists.
C37_BookVersusRemoval ==
    /\ \A p \in Procs :
          (pc[p] = "done" /\ req[p].op = "bookSlot" /\ req[p].result = "ok")
             => /\ req[p].id \in DOMAIN slots
                /\ slots[req[p].id].status = "booked"
    /\ \A b \in DOMAIN bookings : bookings[b].availability_slot_id \in DOMAIN slots

C37_Witness ==
    /\ \E p \in Procs :
          /\ pc[p] = "done" /\ req[p].op = "bookSlot" /\ req[p].result = "error"
          /\ req[p].id \notin DOMAIN slots
    /\ \E q \in Procs :
          /\ pc[q] = "done" /\ req[q].op = "bookSlot" /\ req[q].result = "ok"
    /\ last.op = "cleanupExpiredSlots"


\* C38 (Spec): the provider recorded on a booking is the provider that owns
\* the slot the booking references, whichever entry point created it.
C38_BookingProviderOwnsSlot ==
    \A b \in DOMAIN bookings :
        bookings[b].availability_slot_id \in DOMAIN slots
           => bookings[b].therapist_id
                 = slots[bookings[b].availability_slot_id].therapist_id


\* C39 (SpecDayLoopFair): generateTimeSlotsForDay terminates for every
\* template that can be stored: each iteration that stays in the loop moves
\* the cursor strictly forward, and the call returns.
C39_DayLoopTerminates ==
    /\ [][(InLoop /\ last'.result = "none")
             => /\ last.currentTime # InvalidDate
                /\ last'.currentTime > last.currentTime]_vars
    /\ <>(last.result = "ok")

C39_Witness ==
    /\ last.op = "generateTimeSlotsForDay"
    /\ last.result = "ok"
    /\ last.breakTime = 0
    /\ last.sessionDuration = MinSessionDuration
    /\ Len(last.slots) = 4


\* C40 (SpecInactive): generation from a template whose is_active is false
\* when generation reads it fails and creates no slot.
C40_InactiveTemplateGeneratesNothing ==
    [][(/\ last'.op = "generateSlots"
        /\ last'.id \in DOMAIN templates
        /\ ~templates[last'.id].is_active)
          => (last'.result = "error" /\ slots' = slots)]_vars

C40_Witness ==
    /\ last.op = "generateSlots"
    /\ last.result = "error"
    /\ last.id \in DOMAIN templates
    /\ ~templates[last.id].is_active
    /\ templates[last.id].therapist_id = last.caller

====
